---- MODULE Spec2Model ----
(***************************************************************************)
(* Grover's search demonstration against an AES known-plaintext pair.      *)
(*                                                                         *)
(* Modelled from src/grovers_Aer/grovers-algorithm-Aer.py (the simulated   *)
(* variant) and src/grovers_IBMQ/grovers_algorithm_IBMQ.py (the hardware   *)
(* variant):                                                               *)
(*   - aes_encrypt, the ctypes adapter around the native encrypt routine;  *)
(*   - create_oracle, create_diffuser and grovers_algorithm, the circuit   *)
(*     builders;                                                           *)
(*   - the execution of an assembled circuit on a state vector;            *)
(*   - the module-level script of each variant.                            *)
(*                                                                         *)
(* Text is a sequence of code points, a byte string a sequence of numbers  *)
(* in 0..255, a circuit a sequence of operation records.                   *)
(***************************************************************************)
EXTENDS Integers, Sequences, FiniteSets, TLC

VARIABLES
    dll,            \* which build of aes.dll the process has loaded
    calls,          \* log of the aes_encrypt calls made so far, in order
    variant,        \* "Aer" or "IBMQ": which file's functions are running
    nqubits,        \* argument nqubits of grovers_algorithm / create_diffuser
    target_key_bin, \* IBMQ: argument target_key_bin (sequence of bits)
    plaintext,      \* Aer: argument plaintext (never read by the builders)
    expected_ciphertext, \* Aer: argument expected_ciphertext (never read)
    phase,          \* position of grovers_algorithm
    grover,         \* the circuit under assembly: sequence of operations
    oracle_gate,    \* local oracle_gate of grovers_algorithm
    diffuser_gate,  \* local diffuser_gate of grovers_algorithm
    num_iterations, \* local num_iterations of grovers_algorithm
    rounds,         \* iterations of the for loop completed so far
    job,            \* execution: what is being run ("none", "grover", "diffuser")
    pos,            \* execution: <<index of the current operation, gates done inside it>>
    amp,            \* execution: integer numerators of the amplitudes
    hexp,           \* execution: amplitudes are amp[i] / sqrt(2)^hexp
    entry,          \* execution: [amp, hexp] when the current/last operation began
    cbits,          \* execution: classical bit -> measured qubit (-1: not written)
    lastop,         \* execution: name of the operation completed last
    script          \* the module-level script: [pc, out, submitted, circuit, ...]

vars == <<dll, calls, variant, nqubits, target_key_bin, plaintext,
          expected_ciphertext, phase, grover, oracle_gate, diffuser_gate,
          num_iterations, rounds, job, pos, amp, hexp, entry, cbits, lastop,
          script>>

aesVars == <<dll, calls>>
asmVars == <<variant, nqubits, target_key_bin, plaintext, expected_ciphertext,
             phase, grover, oracle_gate, diffuser_gate, num_iterations, rounds>>
simVars == <<job, pos, amp, hexp, entry, cbits, lastop>>

----------------------------------------------------------------------------
(* Bounds of the model *)

\* calls of aes_encrypt kept in the log
MaxCalls == 2
\* largest nqubits a circuit is assembled for
MaxN == 6
\* largest nqubits a circuit is executed for
\* a process holds fewer than 2^MaxLogInstructions circuit instructions
MaxLogInstructions == 62
MaxRunN == 4

----------------------------------------------------------------------------
(* Byte strings and text *)

Zeros(k) == [i \in 1..k |-> 0]

Rep(c, k) == [i \in 1..k |-> c]

\* Python's str.encode('utf-8') on one code point; <<>> stands for the
\* UnicodeEncodeError raised on a surrogate.
EncodeChar(cp) ==
    IF cp < 128 THEN <<cp>>
    ELSE IF cp < 2048 THEN <<192 + (cp \div 64), 128 + (cp % 64)>>
    ELSE IF cp >= 55296 /\ cp <= 57343 THEN <<>>
    ELSE IF cp < 65536
         THEN <<224 + (cp \div 4096), 128 + ((cp \div 64) % 64), 128 + (cp % 64)>>
    ELSE <<240 + (cp \div 262144), 128 + ((cp \div 4096) % 64),
           128 + ((cp \div 64) % 64), 128 + (cp % 64)>>

RECURSIVE EncodeFrom(_, _, _)
EncodeFrom(s, i, done) ==
    IF i > Len(s) THEN [ok |-> TRUE, bytes |-> done]
    ELSE IF EncodeChar(s[i]) = <<>> THEN [ok |-> FALSE, bytes |-> <<>>]
    ELSE EncodeFrom(s, i + 1, done \o EncodeChar(s[i]))

\* plaintext.encode('utf-8')
encode(s) == EncodeFrom(s, 1, <<>>)

IsSpace(c) == c = 32 \/ (c >= 9 /\ c <= 13)

HexVal(c) ==
    IF c >= 48 /\ c <= 57 THEN c - 48
    ELSE IF c >= 97 /\ c <= 102 THEN c - 87
    ELSE IF c >= 65 /\ c <= 70 THEN c - 55
    ELSE 16

RECURSIVE FromHexAt(_, _, _)
FromHexAt(s, i, done) ==
    IF i > Len(s) THEN [ok |-> TRUE, bytes |-> done]
    ELSE IF IsSpace(s[i]) THEN FromHexAt(s, i + 1, done)
    ELSE IF i + 1 > Len(s) \/ HexVal(s[i]) > 15 \/ HexVal(s[i + 1]) > 15
         THEN [ok |-> FALSE, bytes |-> <<>>]
    ELSE FromHexAt(s, i + 2, Append(done, 16 * HexVal(s[i]) + HexVal(s[i + 1])))

\* bytes.fromhex(key): pairs of hexadecimal digits, white space between the
\* pairs skipped; ok = FALSE stands for the ValueError it raises.
fromhex(s) == FromHexAt(s, 1, <<>>)

----------------------------------------------------------------------------
(* The inputs tried *)

\* "00112233445566778899aabbccddeeff"
ScriptKey ==
    <<48, 48, 49, 49, 50, 50, 51, 51, 52, 52, 53, 53, 54, 54, 55, 55,
      56, 56, 57, 57, 97, 97, 98, 98, 99, 99, 100, 100, 101, 101, 102, 102>>

\* "This is a test"
ScriptPlaintext ==
    <<84, 104, 105, 115, 32, 105, 115, 32, 97, 32, 116, 101, 115, 116>>

\* bytes.fromhex('3c86e7ec17bb967b9da2f2242d94a634')
ScriptExpected ==
    <<60, 134, 231, 236, 23, 187, 150, 123, 157, 162, 242, 36, 45, 148, 166, 52>>

\* the script's key cut or extended to k characters
KeyOfLen(k) ==
    [i \in 1..k |-> IF i <= 32 THEN ScriptKey[i] ELSE 48 + ((i - 33) % 10)]

Keys ==
    { ScriptKey,                          \* 32 digits: 16 bytes
      KeyOfLen(30),                       \* 15 bytes
      KeyOfLen(34),                       \* 17 bytes
      KeyOfLen(31),                       \* an odd number of digits
      [ScriptKey EXCEPT ![5] = 103],      \* a 'g' among the digits
      <<32>> \o [i \in 1..32 |-> IF i % 2 = 0 THEN 70 ELSE 65] \o <<10>> }
                                          \* " AFAF...AF\n": 16 bytes

Plaintexts ==
    { ScriptPlaintext,       \* 14 bytes
      <<>>,                  \* the empty text
      Rep(97, 16),           \* 16 one-byte characters
      Rep(97, 17),           \* 17 one-byte characters
      Rep(233, 8),           \* 8 two-byte characters: 16 bytes
      Rep(8364, 6),          \* 6 three-byte characters: 18 bytes
      <<128273, 0, 97>>,     \* a four-byte character, NUL, 'a': 6 bytes
      <<97, 55296>> }        \* a lone surrogate: no UTF-8 encoding

Dlls == {"aes", "other"}

\* the script's key decoded, and its plaintext zero-padded
ScriptKey16 ==
    <<0, 17, 34, 51, 68, 85, 102, 119, 136, 153, 170, 187, 204, 221, 238, 255>>

ScriptPlain16 == ScriptPlaintext \o <<0, 0>>

----------------------------------------------------------------------------
(* The native routine: void encrypt(key, plaintext, ciphertext)            *)

\* The routine is outside the Python sources.  Each build of the library is
\* a fixed function of the two 16-byte input buffers that fills the 16-byte
\* output buffer; build "aes" yields the published ciphertext on the
\* script's vector, build "other" does not.
encrypt(build, key_array, plaintext_array) ==
    IF build = "aes" /\ key_array = ScriptKey16 /\ plaintext_array = ScriptPlain16
    THEN ScriptExpected
    ELSE [i \in 1..16 |->
            (key_array[i] + 3 * plaintext_array[i] + 5 * plaintext_array[17 - i]
             + 16 * i + (IF build = "aes" THEN 0 ELSE 1)) % 256]

----------------------------------------------------------------------------
(* aes_encrypt(key, plaintext)                                             *)

\* a check that only rejects short keys
KeyLengthInvalid_short(key_bytes) == Len(key_bytes) < 16

\* if len(key_bytes) != 16: raise ValueError
KeyLengthInvalid(key_bytes) == Len(key_bytes) # 16

\* if len(plaintext_bytes) > 16: raise ValueError
PlaintextTooLong(plaintext_bytes) == Len(plaintext_bytes) > 16

\* padding with spaces instead of zero bytes
PadPlaintext_spaces(plaintext_bytes) ==
    IF Len(plaintext_bytes) < 16
    THEN plaintext_bytes \o Rep(32, 16 - Len(plaintext_bytes))
    ELSE plaintext_bytes

\* padding taken from a module-level buffer that is reused and not cleared:
\* its bytes change with every call made
PadPlaintext_stale(plaintext_bytes) ==
    IF Len(plaintext_bytes) < 16
    THEN plaintext_bytes \o Rep(Len(calls), 16 - Len(plaintext_bytes))
    ELSE plaintext_bytes

\* if len(plaintext_bytes) < 16: plaintext_bytes += b'\x00' * (16 - len(...))
PadPlaintext(plaintext_bytes) ==
    IF Len(plaintext_bytes) < 16
    THEN plaintext_bytes \o Zeros(16 - Len(plaintext_bytes))
    ELSE plaintext_bytes

\* (ctypes.c_ubyte * 16).from_buffer_copy(b): the first 16 bytes of b
from_buffer_copy(b) == SubSeq(b, 1, 16)

Raise(what) == [raised |-> what, result |-> <<>>, native |-> <<>>]

\* The outcome of one call: the exception raised ("" when it returns), the
\* bytes returned, and the buffers of each invocation of the native routine.
aes_encrypt(key, text) ==
    LET k == fromhex(key)
        p == encode(text)
    IN  IF ~k.ok THEN Raise("ValueError: fromhex")
        ELSE IF ~p.ok THEN Raise("UnicodeEncodeError")
        ELSE IF KeyLengthInvalid(k.bytes) THEN Raise("ValueError: key")
        ELSE IF PlaintextTooLong(p.bytes) THEN Raise("ValueError: plaintext")
        ELSE LET key_array == from_buffer_copy(k.bytes)
                 plaintext_array == from_buffer_copy(PadPlaintext(p.bytes))
             IN  [raised |-> "",
                  result |-> encrypt(dll, key_array, plaintext_array),
                  native |-> <<[key |-> key_array, plaintext |-> plaintext_array]>>]

\* A caller invokes aes_encrypt(key, text); the call and its outcome are logged.
AesCall(key, text) ==
    /\ Len(calls) < MaxCalls
    /\ calls' = Append(calls, [key |-> key, plaintext |-> text,
                               out |-> aes_encrypt(key, text)])
    /\ UNCHANGED <<dll, asmVars, simVars, script>>

IdleAsm ==
    /\ variant = "Aer" /\ nqubits = 0 /\ target_key_bin = <<>> /\ plaintext = <<>>
    /\ expected_ciphertext = <<>> /\ phase = "Idle"
    /\ grover = [num_qubits |-> 0, num_clbits |-> 0, data |-> <<>>]
    /\ oracle_gate = <<>> /\ diffuser_gate = <<>> /\ num_iterations = 0
    /\ rounds = 0

IdleSim ==
    /\ job = "none" /\ pos = <<0, 0>> /\ amp = <<>> /\ hexp = 0
    /\ entry = [amp |-> <<>>, hexp |-> 0] /\ cbits = <<>> /\ lastop = ""

IdleScript == script = [pc |-> "idle"]

InitAes ==
    /\ dll \in Dlls
    /\ calls = <<>>
    /\ IdleAsm /\ IdleSim /\ IdleScript

NextAes == \E key \in Keys, text \in Plaintexts : AesCall(key, text)

\* The adapter called repeatedly, with any inputs in any order.
SpecAes == InitAes /\ [][NextAes]_vars

----------------------------------------------------------------------------
(* Circuits: QuantumCircuit, its gate methods, to_gate, append             *)

\* range(k) as a sequence: 0, 1, ..., k-1
Range(k) == [i \in 1..k |-> i - 1]

\* strings of '0' (48) and '1' (49) of length n
BitStrings(n) == [1..n -> {48, 49}]

Op(name, qubits, clbits, definition) ==
    [name |-> name, qubits |-> qubits, clbits |-> clbits, definition |-> definition]

\* circuit.h(q), circuit.x(q), circuit.mcx(controls, target), one qubit each
HGate(q) == Op("h", <<q>>, <<>>, <<>>)
XGate(q) == Op("x", <<q>>, <<>>, <<>>)
MCXGate(controls, t) == Op("mcx", Append(controls, t), <<>>, <<>>)
MeasureOp(q, c) == Op("measure", <<q>>, <<c>>, <<>>)

\* circuit.h(range(k)), circuit.x(range(k)): one gate per qubit, in order
HOnRange(k) == [i \in 1..k |-> HGate(i - 1)]
XOnRange(k) == [i \in 1..k |-> XGate(i - 1)]

\* QuantumCircuit(num_qubits, num_clbits)
QuantumCircuit(num_qubits, num_clbits) ==
    [num_qubits |-> num_qubits, num_clbits |-> num_clbits, data |-> <<>>]

\* circuit.to_gate() with gate.name = name
ToGate(num_qubits, data, name) ==
    [name |-> name, num_qubits |-> num_qubits, definition |-> data]

\* the operation circuit.append(gate, qargs) adds
Instruction(gate, qargs) == Op(gate.name, qargs, <<>>, gate.definition)

----------------------------------------------------------------------------
(* create_oracle and create_diffuser                                       *)

\* for i, bit in enumerate(target): if bit == '0': oracle.x(i)
XWhereZero(target) ==
    LET zeros == SelectSeq([i \in 1..Len(target) |-> i],
                           LAMBDA i : target[i] = 48)
    IN  [j \in 1..Len(zeros) |-> XGate(zeros[j] - 1)]

\* the gates create_oracle puts on its circuit for a target string
OracleData(n, target) ==
    XWhereZero(target)
    \o <<HGate(n), MCXGate(Range(n), n), HGate(n)>>
    \o XWhereZero(target)

\* a target read from the expected ciphertext (its first byte, low bit first)
target_state_from_ciphertext(n, text, expected) ==
    [i \in 1..n |-> 48 + ((expected[1] \div (2 ^ (i - 1))) % 2)]

\* Aer: target_state = '1' * nqubits
target_state(n, text, expected) == Rep(49, n)

\* Aer: the keys check_key is called on while the oracle is built: the nested
\* function is defined and never called
key_checks(n, text, expected) == << >>

\* Aer: create_oracle(nqubits, plaintext, expected_ciphertext)
create_oracle_Aer(n, text, expected) ==
    ToGate(n + 1, OracleData(n, target_state(n, text, expected)), "Oracle")

\* IBMQ: create_oracle(nqubits, target_key_bin)
create_oracle_IBMQ(n, target) == ToGate(n + 1, OracleData(n, target), "Oracle")

\* a diffuser without its multi-controlled gate
DiffuserData_no_mcx(n) ==
    HOnRange(n) \o XOnRange(n) \o <<HGate(n - 1), HGate(n - 1)>>
    \o XOnRange(n) \o HOnRange(n)

\* a diffuser without its second layer of bit-flips
DiffuserData_one_x(n) ==
    HOnRange(n) \o XOnRange(n)
    \o <<HGate(n - 1), MCXGate(Range(n - 1), n - 1), HGate(n - 1)>>
    \o HOnRange(n)

\* the gates create_diffuser puts on its circuit
DiffuserData(n) ==
    HOnRange(n) \o XOnRange(n)
    \o <<HGate(n - 1), MCXGate(Range(n - 1), n - 1), HGate(n - 1)>>
    \o XOnRange(n) \o HOnRange(n)

\* create_diffuser(nqubits)
create_diffuser(n) == ToGate(n, DiffuserData(n), "Diffuser")

----------------------------------------------------------------------------
(* grovers_algorithm                                                       *)

\* bounds on pi^2 = 9.8696044..., as PiSqLo / PiSqDen < pi^2 < PiSqHi / PiSqDen
PiSqLo == 98696
PiSqHi == 98697
PiSqDen == 10000

\* rounding pi/4 * sqrt(2^n) up
NumIterations_ceil(n) ==
    CHOOSE k \in 0..(2 ^ n) :
        /\ 16 * k * k * PiSqDen >= PiSqHi * (2 ^ n)
        /\ 16 * (k - 1) * (k - 1) * PiSqDen < PiSqLo * (2 ^ n)

\* int(np.pi / 4 * np.sqrt(float(2**nqubits))): the k with
\* k <= pi/4 * sqrt(2^n) < k + 1, that is 16 k^2 <= pi^2 2^n < 16 (k+1)^2
NumIterations(n) ==
    CHOOSE k \in 0..(2 ^ n) :
        /\ 16 * k * k * PiSqDen <= PiSqLo * (2 ^ n)
        /\ 16 * (k + 1) * (k + 1) * PiSqDen > PiSqHi * (2 ^ n)

\* grover.h(range(nqubits)); grover.x(nqubits); grover.h(nqubits)
SuperposeData(n) == HOnRange(n) \o <<XGate(n), HGate(n)>>

\* a loop body that appends the diffuser before the oracle
RoundData_swapped(n, og, dg) ==
    <<Instruction(dg, Range(n)), Instruction(og, Range(n + 1))>>

\* grover.append(oracle_gate, range(nqubits + 1))
\* grover.append(diffuser_gate, range(nqubits))
RoundData(n, og, dg) ==
    <<Instruction(og, Range(n + 1)), Instruction(dg, Range(n))>>

\* grover.measure(range(nqubits), range(nqubits))
MeasureData(n) == [i \in 1..n |-> MeasureOp(i - 1, i - 1)]

RECURSIVE Repeat(_, _)
Repeat(data, k) == IF k = 0 THEN <<>> ELSE data \o Repeat(data, k - 1)

\* the circuit grovers_algorithm returns, given the two gates it built
GroverCircuit(n, og, dg) ==
    [QuantumCircuit(n + 1, n) EXCEPT
        !.data = SuperposeData(n)
                 \o Repeat(RoundData(n, og, dg), NumIterations(n))
                 \o MeasureData(n)]

\* grover = QuantumCircuit(nqubits + 1, nqubits)
Allocate ==
    /\ phase = "Called"
    /\ grover' = QuantumCircuit(nqubits + 1, nqubits)
    /\ phase' = "Initialized"
    /\ UNCHANGED <<aesVars, variant, nqubits, target_key_bin, plaintext,
                   expected_ciphertext, oracle_gate, diffuser_gate,
                   num_iterations, rounds, simVars, script>>

\* the Hadamards on the data qubits, the ancilla set to 1 and its Hadamard
Superpose ==
    /\ phase = "Initialized"
    /\ grover' = [grover EXCEPT !.data = @ \o SuperposeData(nqubits)]
    /\ phase' = "Superposed"
    /\ UNCHANGED <<aesVars, variant, nqubits, target_key_bin, plaintext,
                   expected_ciphertext, oracle_gate, diffuser_gate,
                   num_iterations, rounds, simVars, script>>

\* oracle_gate = create_oracle(...); diffuser_gate = create_diffuser(nqubits);
\* num_iterations = int(...); the for loop is entered
BuildGates ==
    /\ phase = "Superposed"
    /\ oracle_gate' =
          IF variant = "Aer"
          THEN create_oracle_Aer(nqubits, plaintext, expected_ciphertext)
          ELSE create_oracle_IBMQ(nqubits, target_key_bin)
    /\ calls' =
          IF variant = "Aer"
          THEN LET ks == key_checks(nqubits, plaintext, expected_ciphertext)
               IN  calls \o [i \in 1..Len(ks) |->
                               [key |-> ks[i], plaintext |-> plaintext,
                                out |-> aes_encrypt(ks[i], plaintext)]]
          ELSE calls
    /\ diffuser_gate' = create_diffuser(nqubits)
    /\ num_iterations' = NumIterations(nqubits)
    /\ rounds' = 0
    /\ phase' = "Iterating"
    /\ UNCHANGED <<dll, variant, nqubits, target_key_bin, plaintext,
                   expected_ciphertext, grover, simVars, script>>

\* one iteration of: for _ in range(num_iterations)
AppendRound ==
    /\ phase = "Iterating"
    /\ rounds < num_iterations
    /\ grover' = [grover EXCEPT
                    !.data = @ \o RoundData(nqubits, oracle_gate, diffuser_gate)]
    /\ rounds' = rounds + 1
    /\ UNCHANGED <<aesVars, variant, nqubits, target_key_bin, plaintext,
                   expected_ciphertext, phase, oracle_gate, diffuser_gate,
                   num_iterations, simVars, script>>

\* the loop is exhausted: grover.measure(range(nqubits), range(nqubits))
Measure ==
    /\ phase = "Iterating"
    /\ rounds >= num_iterations
    /\ grover' = [grover EXCEPT !.data = @ \o MeasureData(nqubits)]
    /\ phase' = "Measured"
    /\ UNCHANGED <<aesVars, variant, nqubits, target_key_bin, plaintext,
                   expected_ciphertext, oracle_gate, diffuser_gate,
                   num_iterations, rounds, simVars, script>>

\* return grover
Return ==
    /\ phase = "Measured"
    /\ phase' = "Done"
    /\ UNCHANGED <<aesVars, variant, nqubits, target_key_bin, plaintext,
                   expected_ciphertext, grover, oracle_gate, diffuser_gate,
                   num_iterations, rounds, simVars, script>>

\* the expected ciphertexts passed to the simulated variant
Ciphertexts == { ScriptExpected, Zeros(16), Rep(255, 16) }

\* grovers_algorithm has just been called with its arguments
InitAsm ==
    /\ dll \in Dlls
    /\ calls = <<>>
    /\ variant \in {"Aer", "IBMQ"}
    /\ nqubits \in 2..MaxN
    /\ IF variant = "Aer"
       THEN /\ target_key_bin = <<>>
            /\ plaintext \in {ScriptPlaintext, <<>>, Rep(97, 17)}
            /\ expected_ciphertext \in Ciphertexts
       ELSE /\ target_key_bin \in BitStrings(nqubits)
            /\ plaintext = <<>>
            /\ expected_ciphertext = <<>>
    /\ phase = "Called"
    /\ grover = QuantumCircuit(0, 0)
    /\ oracle_gate = <<>> /\ diffuser_gate = <<>>
    /\ num_iterations = 0 /\ rounds = 0
    /\ IdleSim /\ IdleScript

NextAsm ==
    \/ Allocate
    \/ Superpose
    \/ BuildGates
    \/ AppendRound
    \/ Measure
    \/ Return

\* One call of grovers_algorithm, statement by statement.
Spec == InitAsm /\ [][NextAsm]_vars

----------------------------------------------------------------------------
(* execute_grover: the circuit run on a state vector                       *)
(*                                                                         *)
(* The register of k qubits is in the state                                *)
(*     sum over i in 0..2^k-1 of  amp[i] / sqrt(2)^hexp  |i>               *)
(* where bit q of i is the value of qubit q.  All the gates of the         *)
(* circuits keep the numerators amp[i] integers; the pair is kept reduced  *)
(* (no common factor 2 with hexp >= 2), so equal states are equal pairs.   *)

Bit(i, q) == (i \div (2 ^ q)) % 2

Flip(i, q) == IF Bit(i, q) = 0 THEN i + 2 ^ q ELSE i - 2 ^ q

RECURSIVE Reduce(_, _)
Reduce(a, h) ==
    IF h >= 2 /\ \A i \in DOMAIN a : a[i] % 2 = 0
    THEN Reduce([i \in DOMAIN a |-> a[i] \div 2], h - 2)
    ELSE [amp |-> a, hexp |-> h]

\* X on qubit q
ApplyX(a, h, q) == [amp |-> [i \in DOMAIN a |-> a[Flip(i, q)]], hexp |-> h]

\* H on qubit q: |0> -> (|0> + |1>)/sqrt 2, |1> -> (|0> - |1>)/sqrt 2
ApplyH(a, h, q) ==
    Reduce([i \in DOMAIN a |->
              IF Bit(i, q) = 0 THEN a[i] + a[Flip(i, q)]
              ELSE a[Flip(i, q)] - a[i]],
           h + 1)

\* X on the last qubit of qs when all the others are 1
ApplyMCX(a, h, qs) ==
    [amp |-> [i \in DOMAIN a |->
                IF \A j \in 1..(Len(qs) - 1) : Bit(i, qs[j]) = 1
                THEN a[Flip(i, qs[Len(qs)])]
                ELSE a[i]],
     hexp |-> h]

ApplyGate(a, h, name, qs) ==
    CASE name = "x" -> ApplyX(a, h, qs[1])
      [] name = "h" -> ApplyH(a, h, qs[1])
      [] name = "mcx" -> ApplyMCX(a, h, qs)

\* the qubits of the circuit a gate of a composite operation acts on
MapQubits(qs, qargs) == [j \in 1..Len(qs) |-> qargs[qs[j] + 1]]

Finished == job # "none" /\ pos[1] > Len(grover.data)

CurrentOp == grover.data[pos[1]]

\* a gate of the circuit itself
ExecPrimitive ==
    /\ job # "none" /\ ~Finished
    /\ CurrentOp.definition = <<>> /\ CurrentOp.name # "measure"
    /\ LET r == ApplyGate(amp, hexp, CurrentOp.name, CurrentOp.qubits)
       IN  amp' = r.amp /\ hexp' = r.hexp
    /\ entry' = [amp |-> amp, hexp |-> hexp]
    /\ lastop' = CurrentOp.name
    /\ pos' = <<pos[1] + 1, 0>>
    /\ UNCHANGED <<aesVars, asmVars, job, cbits, script>>

\* the next gate of the definition of a composite operation (Oracle, Diffuser)
ExecInside ==
    /\ job # "none" /\ ~Finished
    /\ CurrentOp.definition # <<>>
    /\ LET g == CurrentOp.definition[pos[2] + 1]
           r == ApplyGate(amp, hexp, g.name, MapQubits(g.qubits, CurrentOp.qubits))
       IN  amp' = r.amp /\ hexp' = r.hexp
    /\ entry' = IF pos[2] = 0 THEN [amp |-> amp, hexp |-> hexp] ELSE entry
    /\ IF pos[2] + 1 = Len(CurrentOp.definition)
       THEN pos' = <<pos[1] + 1, 0>> /\ lastop' = CurrentOp.name
       ELSE pos' = <<pos[1], pos[2] + 1>> /\ lastop' = lastop
    /\ UNCHANGED <<aesVars, asmVars, job, cbits, script>>

\* measure qubit q into classical bit c (the measurements end the circuit)
ExecMeasure ==
    /\ job # "none" /\ ~Finished
    /\ CurrentOp.name = "measure"
    /\ cbits' = [cbits EXCEPT ![CurrentOp.clbits[1] + 1] = CurrentOp.qubits[1]]
    /\ entry' = [amp |-> amp, hexp |-> hexp]
    /\ lastop' = "measure"
    /\ pos' = <<pos[1] + 1, 0>>
    /\ UNCHANGED <<aesVars, asmVars, job, amp, hexp, script>>

RECURSIVE SumSquares(_, _)
SumSquares(a, is) ==
    IF is = {} THEN 0
    ELSE LET i == CHOOSE x \in is : TRUE
         IN  a[i] * a[i] + SumSquares(a, is \ {i})

\* the probability of reading the classical bits as the number y, times
\* 2^hexp: result.get_counts gives about shots * Weight(y) / 2^hexp for the
\* string of y's bits, classical bit 0 last
Weight(y) ==
    SumSquares(amp, {i \in DOMAIN amp :
                        \A c \in DOMAIN cbits : Bit(i, cbits[c]) = Bit(y, c - 1)})

\* |0...0> on k qubits
ZeroState(k) == [i \in 0..(2 ^ k - 1) |-> IF i = 0 THEN 1 ELSE 0]

\* the uniform superposition on k qubits: every amplitude 1 / sqrt(2)^k
UniformState(k) == [i \in 0..(2 ^ k - 1) |-> 1]

\* the circuit returned by grovers_algorithm starts on the simulator
InitRunGrover ==
    /\ job = "grover"
    /\ variant \in {"Aer", "IBMQ"}
    /\ nqubits \in 2..MaxRunN
    /\ IF variant = "Aer"
       THEN /\ target_key_bin = <<>>
            /\ plaintext = ScriptPlaintext
            /\ expected_ciphertext = ScriptExpected
            /\ oracle_gate = create_oracle_Aer(nqubits, plaintext, expected_ciphertext)
       ELSE /\ target_key_bin \in BitStrings(nqubits)
            /\ plaintext = <<>>
            /\ expected_ciphertext = <<>>
            /\ oracle_gate = create_oracle_IBMQ(nqubits, target_key_bin)
    /\ diffuser_gate = create_diffuser(nqubits)
    /\ num_iterations = NumIterations(nqubits)
    /\ rounds = num_iterations
    /\ grover = GroverCircuit(nqubits, oracle_gate, diffuser_gate)
    /\ phase = "Done"
    /\ amp = ZeroState(nqubits + 1) /\ hexp = 0
    /\ cbits = [c \in 1..nqubits |-> -1]

\* the gate of create_diffuser alone, on the uniform superposition
InitRunDiffuser ==
    /\ job = "diffuser"
    /\ variant \in {"Aer", "IBMQ"}
    /\ nqubits \in 2..MaxRunN
    /\ target_key_bin = <<>> /\ plaintext = <<>> /\ expected_ciphertext = <<>>
    /\ oracle_gate = <<>>
    /\ diffuser_gate = create_diffuser(nqubits)
    /\ num_iterations = 0 /\ rounds = 0
    /\ grover = [QuantumCircuit(nqubits, 0) EXCEPT
                    !.data = <<Instruction(diffuser_gate, Range(nqubits))>>]
    /\ phase = "Idle"
    /\ amp = UniformState(nqubits) /\ hexp = nqubits
    /\ cbits = <<>>

InitRun ==
    /\ dll = "aes" /\ calls = <<>>
    /\ (InitRunGrover \/ InitRunDiffuser)
    /\ pos = <<1, 0>>
    /\ entry = [amp |-> amp, hexp |-> hexp]
    /\ lastop = ""
    /\ IdleScript

NextRun ==
    \/ ExecPrimitive
    \/ ExecInside
    \/ ExecMeasure

\* A circuit executed operation by operation.
SpecRun == InitRun /\ [][NextRun]_vars

----------------------------------------------------------------------------
(* The module-level script of each variant                                 *)

\* nqubits = 4 (simulated variant) and nqubits = 128 (hardware variant)
AerNQubits == 4
IBMQNQubits == 128
\* hex_to_bin: .zfill(128)
KeyWidth == 128

RECURSIVE StripLeft(_)
StripLeft(s) == IF s # <<>> /\ IsSpace(s[1]) THEN StripLeft(Tail(s)) ELSE s

RECURSIVE StripRight(_)
StripRight(s) ==
    IF s # <<>> /\ IsSpace(s[Len(s)]) THEN StripRight(SubSeq(s, 1, Len(s) - 1))
    ELSE s

\* the binary digits of the hexadecimal digits of s, four for each
DigitBits(s) ==
    [j \in 1..(4 * Len(s)) |->
        48 + ((HexVal(s[((j - 1) \div 4) + 1]) \div (2 ^ (3 - ((j - 1) % 4)))) % 2)]

\* bin(value)[2:] has no leading zero, and is "0" for the value 0
DropLeadingZeros(b) ==
    LET ones == {i \in DOMAIN b : b[i] = 49}
    IN  IF ones = {} THEN <<48>>
        ELSE SubSeq(b, CHOOSE i \in ones : \A j \in ones : i <= j, Len(b))

ZFill(b, width) == IF Len(b) >= width THEN b ELSE Rep(48, width - Len(b)) \o b

\* IBMQ: hex_to_bin(hex_string) = bin(int(hex_string, 16))[2:].zfill(128), for
\* text made of hexadecimal digits with white space around it; ok = FALSE
\* stands for the ValueError of int() on any other text tried here.
hex_to_bin(hex_string) ==
    LET t == StripRight(StripLeft(hex_string))
    IN  IF t = <<>> \/ \E i \in DOMAIN t : HexVal(t[i]) > 15
        THEN [ok |-> FALSE, bits |-> <<>>]
        ELSE [ok |-> TRUE,
              bits |-> ZFill(DropLeadingZeros(DigitBits(t)), KeyWidth)]

\* the devices and simulators the remote service may have on offer
Backends ==
    { [name |-> "device4", num_qubits |-> 4, simulator |-> FALSE],
      [name |-> "device127", num_qubits |-> 127, simulator |-> FALSE],
      [name |-> "device128", num_qubits |-> 128, simulator |-> FALSE],
      [name |-> "device133", num_qubits |-> 133, simulator |-> FALSE],
      [name |-> "cloudsim", num_qubits |-> 5000, simulator |-> TRUE] }

\* IBMQ: service.least_busy_backend(minimum_qubits=nqubits, simulator=False):
\* the backends of the offer that may be returned
Eligible(offer, minimum_qubits) ==
    {b \in offer : b.num_qubits >= minimum_qubits /\ ~b.simulator}

\* where the script goes after the comparison of the ciphertexts: on
AfterVerify(ciphertext, expected) == "verified"

\* if ciphertext != expected_ciphertext: print(...) else: print(...)
Diagnostic(ciphertext, expected) ==
    IF ciphertext # expected
    THEN "Error: The AES encryption function did not produce the expected ciphertext."
    ELSE "Success: The AES encryption function produced the expected ciphertext"

Failed(from, what) == [script EXCEPT !.pc = "failed",
                                     !.error = [from |-> from, what |-> what]]

\* ciphertext = aes_encrypt(key, plaintext)
ScriptEncrypt ==
    /\ script.pc = "start"
    /\ calls' = Append(calls, [key |-> script.key, plaintext |-> script.plaintext,
                               out |-> aes_encrypt(script.key, script.plaintext)])
    /\ script' = LET r == calls'[Len(calls')].out
                 IN  IF r.raised # "" THEN Failed("aes_encrypt", r.raised)
                     ELSE [script EXCEPT !.pc = "encrypted",
                                         !.ciphertext = r.result]
    /\ UNCHANGED <<dll, asmVars, simVars>>

\* the comparison with expected_ciphertext and the message printed
ScriptVerify ==
    /\ script.pc = "encrypted"
    /\ script' = [script EXCEPT
                    !.pc = AfterVerify(script.ciphertext, script.expected),
                    !.out = Append(@, Diagnostic(script.ciphertext, script.expected))]
    /\ UNCHANGED <<aesVars, asmVars, simVars>>

\* IBMQ: target_key_bin = hex_to_bin(key)
ScriptHexToBin ==
    /\ script.pc = "verified" /\ script.which = "IBMQ"
    /\ script' = LET r == hex_to_bin(script.key)
                 IN  IF ~r.ok THEN Failed("hex_to_bin", "ValueError")
                     ELSE [script EXCEPT !.pc = "converted", !.target = r.bits]
    /\ UNCHANGED <<aesVars, asmVars, simVars>>

\* IBMQ create_oracle: oracle.x(i) for a '0' at index i of target_key_bin
\* raises when the circuit of n + 1 qubits has no qubit i
OracleIndexError(n, target) ==
    \E i \in DOMAIN target : target[i] = 48 /\ i - 1 > n

\* grovers_algorithm appends two instructions in each of its num_iterations
\* rounds, and num_iterations = int(pi/4 * sqrt(2^n)) >= 2^(n div 2 - 1): the
\* loop comes to its end only if 2^(n div 2) instructions can be held
Holds(n) == n \div 2 < MaxLogInstructions

\* grover_circuit = grovers_algorithm(...): the circuit is kept as its
\* registers and its two gates (the number of rounds follows from nqubits).
\* The call raises when create_oracle does, and does not return (the
\* interpreter runs out of memory inside the loop) when the rounds cannot
\* be held.
ScriptAssemble ==
    /\ \/ script.pc = "verified" /\ script.which = "Aer"
       \/ script.pc = "converted"
    /\ script' =
         IF script.which = "IBMQ" /\ OracleIndexError(script.nqubits, script.target)
         THEN Failed("grovers_algorithm", "CircuitError")
         ELSE IF ~Holds(script.nqubits)
         THEN Failed("grovers_algorithm", "MemoryError")
         ELSE
         [script EXCEPT
            !.pc = "assembled",
            !.circuit =
               [num_qubits |-> script.nqubits + 1,
                num_clbits |-> script.nqubits,
                oracle |-> IF script.which = "Aer"
                           THEN create_oracle_Aer(script.nqubits, script.plaintext,
                                                  script.expected)
                           ELSE create_oracle_IBMQ(script.nqubits, script.target),
                diffuser |-> create_diffuser(script.nqubits)]]
    /\ UNCHANGED <<aesVars, asmVars, simVars>>

\* Aer: counts = execute_grover(grover_circuit): AerSimulator, transpile, run
\* with 1024 shots; the simulator either returns counts or raises
ScriptExecuteAer ==
    /\ script.pc = "assembled" /\ script.which = "Aer"
    /\ \E ok \in BOOLEAN :
         script' =
            IF ok
            THEN [script EXCEPT !.pc = "executed", !.executed = @ + 1,
                                !.runs = @ + 1, !.backend = "AerSimulator"]
            ELSE [Failed("backend", "simulator error") EXCEPT
                                !.executed = @ + 1, !.runs = @ + 1,
                                !.backend = "AerSimulator"]
    /\ UNCHANGED <<aesVars, asmVars, simVars>>

\* IBMQ execute_grover: minimum_qubits=nqubits, the module-level nqubits
minimum_qubits(n) == n

\* IBMQ: counts = execute_grover(grover_circuit): the service is asked for the
\* least busy device with at least the global nqubits qubits; none: the call
\* raises; else the circuit is run once in a session, and the job returns
\* counts or raises (it cannot succeed on a device smaller than the circuit)
ScriptExecuteIBMQ ==
    /\ script.pc = "assembled" /\ script.which = "IBMQ"
    /\ \E offer \in SUBSET Backends :
         IF Eligible(offer, minimum_qubits(script.nqubits)) = {}
         THEN script' = [Failed("backend", "no backend") EXCEPT
                            !.executed = @ + 1,
                            !.minimum_qubits = minimum_qubits(script.nqubits)]
         ELSE \E b \in Eligible(offer, minimum_qubits(script.nqubits)),
                 ok \in BOOLEAN :
                script' =
                   IF ok /\ b.num_qubits >= script.circuit.num_qubits
                   THEN [script EXCEPT !.pc = "executed", !.executed = @ + 1,
                                       !.runs = @ + 1, !.backend = b.name,
                                       !.backend_qubits = b.num_qubits,
                                       !.minimum_qubits = minimum_qubits(script.nqubits)]
                   ELSE [Failed("backend", "job error") EXCEPT
                                       !.executed = @ + 1, !.runs = @ + 1,
                                       !.backend = b.name,
                                       !.backend_qubits = b.num_qubits,
                                       !.minimum_qubits = minimum_qubits(script.nqubits)]
    /\ UNCHANGED <<aesVars, asmVars, simVars>>

\* print("Counts:", counts), and the histogram
ScriptPrintCounts ==
    /\ script.pc = "executed"
    /\ script' = [script EXCEPT !.pc = "done", !.out = Append(@, "Counts:")]
    /\ UNCHANGED <<aesVars, asmVars, simVars>>

\* the keys and plaintexts the two module-level constants are set to
ScriptKeys ==
    { ScriptKey, KeyOfLen(30),
      <<32>> \o [i \in 1..32 |-> IF i % 2 = 0 THEN 70 ELSE 65] \o <<10>> }

ScriptPlaintexts == { ScriptPlaintext, <<>>, Rep(97, 17) }

\* the two scripts with their own nqubits, and the hardware script cut down
\* to a size it can assemble: the simulated script's nqubits and a key whose
\* every bit is 1
ScriptConstants ==
    { [which |-> "Aer", nqubits |-> AerNQubits, key |-> k] : k \in ScriptKeys }
    \cup { [which |-> "IBMQ", nqubits |-> IBMQNQubits, key |-> k] : k \in ScriptKeys }
    \cup { [which |-> "IBMQ", nqubits |-> AerNQubits, key |-> Rep(70, 32)] }

InitScript ==
    /\ dll \in Dlls
    /\ calls = <<>>
    /\ IdleAsm /\ IdleSim
    /\ \E c \in ScriptConstants, text \in ScriptPlaintexts :
         script = [pc |-> "start", which |-> c.which,
                   nqubits |-> c.nqubits,
                   key |-> c.key, plaintext |-> text, expected |-> ScriptExpected,
                   ciphertext |-> <<>>, target |-> <<>>, out |-> <<>>,
                   circuit |-> <<>>, executed |-> 0, runs |-> 0,
                   backend |-> "", backend_qubits |-> 0, minimum_qubits |-> 0,
                   error |-> [from |-> "", what |-> ""]]

NextScript ==
    \/ ScriptEncrypt
    \/ ScriptVerify
    \/ ScriptHexToBin
    \/ ScriptAssemble
    \/ ScriptExecuteAer
    \/ ScriptExecuteIBMQ
    \/ ScriptPrintCounts

\* One run of either script, from its constants to its last print.
SpecScript == InitScript /\ [][NextScript]_vars

----------------------------------------------------------------------------
(* Claims about aes_encrypt                                                *)

LastCall == calls[Len(calls)]

IsByteString(b, n) == Len(b) = n /\ \A i \in 1..n : b[i] \in 0..255

\* C1: aes_encrypt ends in an error, without invoking the native routine,
\* whenever the decoded key is not exactly 16 bytes or the UTF-8 encoded
\* plaintext is longer than 16 bytes; with a key of exactly 16 bytes and a
\* plaintext of at most 16 bytes it does not raise and returns 16 bytes.
C1_RejectsBadLengths ==
    calls # <<>> =>
        LET c == LastCall
            k == fromhex(c.key)
            p == encode(c.plaintext)
        IN  /\ ((k.ok /\ Len(k.bytes) # 16) \/ (p.ok /\ Len(p.bytes) > 16))
                  => (c.out.raised # "" /\ c.out.native = <<>>)
            /\ (k.ok /\ Len(k.bytes) = 16 /\ p.ok /\ Len(p.bytes) <= 16)
                  => (c.out.raised = "" /\ IsByteString(c.out.result, 16))

\* a 17-byte key was rejected, then an 18-byte plaintext of 6 characters was
\* rejected under a good key ... and a 16-byte plaintext was encrypted
C1_Witness ==
    /\ Len(calls) = 2
    /\ calls[1].key = KeyOfLen(34) /\ calls[1].out.raised = "ValueError: key"
    /\ calls[2].key = ScriptKey /\ calls[2].plaintext = Rep(8364, 6)
    /\ calls[2].out.raised = "ValueError: plaintext"

\* C7: whenever aes_encrypt invokes the native routine, the plaintext buffer
\* passed is 16 bytes: the UTF-8 bytes of the plaintext, then zero bytes only;
\* a plaintext of exactly 16 bytes is passed unchanged.
C7_ZeroPadded ==
    (calls # <<>> /\ LastCall.out.native # <<>>) =>
        LET p == encode(LastCall.plaintext).bytes
            buf == LastCall.out.native[1].plaintext
        IN  /\ Len(LastCall.out.native) = 1
            /\ Len(buf) = 16
            /\ Len(p) <= 16
            /\ \A i \in 1..16 : buf[i] = IF i <= Len(p) THEN p[i] ELSE 0
            /\ Len(p) = 16 => buf = p

\* the 14-byte script plaintext was passed with two zero bytes after it, and
\* a plaintext of 8 two-byte characters was passed as it is
C7_Witness ==
    /\ Len(calls) = 2
    /\ calls[1].plaintext = ScriptPlaintext
    /\ calls[1].out.native = <<[key |-> ScriptKey16, plaintext |-> ScriptPlain16]>>
    /\ calls[2].plaintext = Rep(233, 8)
    /\ calls[2].out.native # <<>>
    /\ calls[2].out.native[1].plaintext[16] = 169

----------------------------------------------------------------------------
(* Claims about grovers_algorithm                                          *)

CountOps(name) ==
    Cardinality({i \in DOMAIN grover.data : grover.data[i].name = name})

\* C5: grovers_algorithm appends exactly K = floor(pi/4 * sqrt(2^n)) rounds of
\* (oracle, diffuser); K is fixed before the first round and stays what it
\* is; K = 3 for n = 4 and K = 6 for n = 6.
C5_IterationCount ==
    /\ phase \in {"Called", "Initialized", "Superposed"}
         => (CountOps("Oracle") = 0 /\ CountOps("Diffuser") = 0)
    /\ phase \in {"Iterating", "Measured", "Done"} =>
         /\ 16 * num_iterations * num_iterations * PiSqDen
               <= PiSqLo * (2 ^ nqubits)
         /\ 16 * (num_iterations + 1) * (num_iterations + 1) * PiSqDen
               > PiSqHi * (2 ^ nqubits)
         /\ nqubits = 4 => num_iterations = 3
         /\ nqubits = 6 => num_iterations = 6
         /\ rounds <= num_iterations
         /\ CountOps("Oracle") = rounds
         /\ CountOps("Diffuser") = rounds
         /\ phase \in {"Measured", "Done"} => rounds = num_iterations

\* a circuit for 6 qubits was returned with its 6 rounds
C5_Witness ==
    /\ phase = "Done" /\ nqubits = 6
    /\ CountOps("Oracle") = 6 /\ CountOps("Diffuser") = 6

PhaseRank(p) ==
    CASE p = "Called" -> 0
      [] p = "Initialized" -> 1
      [] p = "Superposed" -> 2
      [] p = "Iterating" -> 3
      [] p = "Measured" -> 4
      [] p = "Done" -> 5

\* the operation expected at place i of a circuit for n qubits and k rounds
ExpectedOp(n, k, i) ==
    IF i <= n THEN [name |-> "h", qubits |-> <<i - 1>>, clbits |-> <<>>]
    ELSE IF i = n + 1 THEN [name |-> "x", qubits |-> <<n>>, clbits |-> <<>>]
    ELSE IF i = n + 2 THEN [name |-> "h", qubits |-> <<n>>, clbits |-> <<>>]
    ELSE IF i <= n + 2 + 2 * k
         THEN IF (i - (n + 2)) % 2 = 1
              THEN [name |-> "Oracle", qubits |-> [q \in 1..(n + 1) |-> q - 1],
                    clbits |-> <<>>]
              ELSE [name |-> "Diffuser", qubits |-> [q \in 1..n |-> q - 1],
                    clbits |-> <<>>]
    ELSE [name |-> "measure", qubits |-> <<i - (n + 2 + 2 * k) - 1>>,
          clbits |-> <<i - (n + 2 + 2 * k) - 1>>]

ExpectedLength ==
    CASE phase \in {"Called", "Initialized"} -> 0
      [] phase = "Superposed" -> nqubits + 2
      [] phase = "Iterating" -> nqubits + 2 + 2 * rounds
      [] phase \in {"Measured", "Done"} -> nqubits + 2 + 2 * num_iterations + nqubits

C6_Shape ==
    /\ phase # "Called"
         => (grover.num_qubits = nqubits + 1 /\ grover.num_clbits = nqubits)
    /\ Len(grover.data) = ExpectedLength
    /\ \A i \in DOMAIN grover.data :
          LET op == grover.data[i]
              e == ExpectedOp(nqubits, num_iterations, i)
          IN  /\ op.name = e.name /\ op.qubits = e.qubits /\ op.clbits = e.clbits
              /\ op.name = "Oracle" => op.definition = oracle_gate.definition
              /\ op.name = "Diffuser" => op.definition = diffuser_gate.definition

C6_Step ==
    \/ PhaseRank(phase') = PhaseRank(phase) + 1
    \/ (phase = "Iterating" /\ phase' = "Iterating")

\* C6: the assembler goes through Initialized, Superposed, Iterating, Measured
\* and Done in this order and never back, and the circuit holds, in order: a
\* Hadamard on each data qubit, a bit-flip and a Hadamard on the ancilla, the
\* rounds (oracle on qubits 0..n, then diffuser on qubits 0..n-1), and the
\* measurement of data qubit i into classical bit i; nothing follows the
\* measurement and the ancilla is not measured.
C6_PhasesInOrder == []C6_Shape /\ [][C6_Step]_vars

\* the circuit for 4 qubits is complete: 6 + 2 * 3 + 4 operations
C6_Witness ==
    /\ phase = "Done" /\ nqubits = 4 /\ variant = "IBMQ"
    /\ Len(grover.data) = 16
    /\ grover.data[16].name = "measure"
    /\ grover.data[12].name = "Diffuser"

\* C10: in the simulated variant the oracle built for n qubits is the same
\* gate sequence, marking the all-ones string, whatever the plaintext and the
\* expected ciphertext, and building the circuit makes no call of aes_encrypt.
C10_OracleIgnoresCipher ==
    variant = "Aer" =>
        /\ calls = <<>>
        /\ phase \in {"Iterating", "Measured", "Done"} =>
              /\ oracle_gate.num_qubits = nqubits + 1
              /\ oracle_gate.definition =
                    << [name |-> "h", qubits |-> <<nqubits>>, clbits |-> <<>>,
                        definition |-> <<>>],
                       [name |-> "mcx", qubits |-> [q \in 1..(nqubits + 1) |-> q - 1],
                        clbits |-> <<>>, definition |-> <<>>],
                       [name |-> "h", qubits |-> <<nqubits>>, clbits |-> <<>>,
                        definition |-> <<>>] >>

\* the circuit was built for a plaintext aes_encrypt would reject and an
\* expected ciphertext of zero bytes
C10_Witness ==
    /\ variant = "Aer" /\ phase = "Done"
    /\ plaintext = Rep(97, 17)
    /\ expected_ciphertext = Zeros(16)
    /\ oracle_gate.name = "Oracle"

----------------------------------------------------------------------------
(* Claims about the circuits when run                                      *)

\* the target string of the run: qubit q is compared with character q + 1
RunTarget == IF variant = "Aer" THEN Rep(49, nqubits) ELSE target_key_bin

\* the data qubits of basis state i spell the string t
DataEquals(i, t) == \A q \in 0..(nqubits - 1) : Bit(i, q) = t[q + 1] - 48

OracleJustApplied == job = "grover" /\ lastop = "Oracle" /\ pos[2] = 0

\* C2: in the search circuit, the oracle multiplies the amplitude of the data
\* basis state equal to the target by -1 and leaves every other amplitude,
\* and the state of the ancilla, as they were.
C2_OracleFlipsTargetSign ==
    OracleJustApplied =>
        /\ hexp = entry.hexp
        /\ \A i \in DOMAIN amp :
              amp[i] = IF DataEquals(i, RunTarget) THEN - entry.amp[i]
                       ELSE entry.amp[i]

\* what the oracle does instead: on the target it turns the ancilla from
\* (|0> - |1>)/sqrt 2 into (|0> + |1>)/sqrt 2, and changes nothing else
C2_OracleFlipsAncilla ==
    OracleJustApplied =>
        /\ hexp = entry.hexp
        /\ \A i \in DOMAIN amp :
              amp[i] = IF DataEquals(i, RunTarget) /\ Bit(i, nqubits) = 1
                       THEN - entry.amp[i]
                       ELSE entry.amp[i]

AllOnesRun ==
    /\ job = "grover" /\ Finished
    /\ nqubits = 4 /\ RunTarget = <<49, 49, 49, 49>>

\* C3: for n = 4 and the target "1111", the circuit of grovers_algorithm
\* (3 rounds) gives the outcome "1111" a probability strictly above that of
\* each of the 15 other outcomes and above 1/16: more than 64 of 1024 shots
\* are expected, and in fact more than 512.
C3_AllOnesAmplified ==
    AllOnesRun =>
        /\ CountOps("Oracle") = 3
        /\ cbits = <<0, 1, 2, 3>>
        /\ \A y \in 0..14 : Weight(15) > Weight(y)
        /\ 1024 * Weight(15) > 64 * (2 ^ hexp)
        /\ 1024 * Weight(15) > 512 * (2 ^ hexp)

\* the run of the simulated variant's circuit for 4 qubits is over, and the
\* 16 outcomes share the whole probability
C3_Witness ==
    /\ AllOnesRun /\ variant = "Aer"
    /\ Weight(15) > 0
    /\ SumSquares(amp, DOMAIN amp) = 2 ^ hexp

DiffuserApplied == job = "diffuser" /\ Finished

\* C4: for n >= 2 the diffuser maps the uniform superposition of the 2^n
\* data basis states to itself up to one common factor +1 or -1.
C4_DiffuserFixesUniform ==
    DiffuserApplied =>
        /\ entry = [amp |-> [i \in 0..(2 ^ nqubits - 1) |-> 1], hexp |-> nqubits]
        /\ hexp = entry.hexp
        /\ \/ \A i \in DOMAIN amp : amp[i] = entry.amp[i]
           \/ \A i \in DOMAIN amp : amp[i] = - entry.amp[i]

\* the diffuser for 3 qubits has been applied to the uniform superposition
C4_Witness ==
    /\ DiffuserApplied /\ nqubits = 3
    /\ lastop = "Diffuser"
    /\ amp[0] * amp[0] = 1

----------------------------------------------------------------------------
(* Claims about the scripts                                                *)

\* C9: in both scripts a ciphertext that differs from the expected one is
\* reported by a printed message and nothing more: the script goes on to
\* assemble the circuit and to call the executor, once, as it does when the
\* ciphertexts match; the run stops early only on an exception of
\* aes_encrypt or of the backend, and no step is done twice.
C9_MismatchIsNotFatal ==
    /\ script.pc \in {"verified", "converted", "assembled", "executed", "done"}
         => script.out[1] =
              IF script.ciphertext # ScriptExpected
              THEN "Error: The AES encryption function did not produce the expected ciphertext."
              ELSE "Success: The AES encryption function produced the expected ciphertext"
    /\ script.pc = "failed" =>
         /\ script.error.from \in {"aes_encrypt", "backend"}
         /\ script.error.from = "aes_encrypt"
              => (script.out = <<>> /\ script.executed = 0 /\ script.circuit = <<>>)
         /\ script.error.from = "backend"
              => (Len(script.out) = 1 /\ script.executed = 1 /\ script.circuit # <<>>)
    /\ script.pc \in {"executed", "done"}
         => (script.executed = 1 /\ script.runs = 1 /\ script.circuit # <<>>)
    /\ script.pc = "done" => (Len(script.out) = 2 /\ script.out[2] = "Counts:")
    /\ script.executed <= 1 /\ script.runs <= 1 /\ Len(calls) <= 1
    /\ script.pc \notin {"done", "failed"} => ENABLED NextScript

\* what holds of both scripts whenever the circuit can be assembled: the
\* statement above, with the end of the run inside grovers_algorithm set apart
C9_MismatchIsNotFatalOnceAssembled ==
    script.error.from # "grovers_algorithm" => C9_MismatchIsNotFatal

\* C11: in the hardware variant the minimum number of qubits execute_grover
\* asks of a backend is at least the number of qubits of the circuit it
\* submits (nqubits + 1), so the backend chosen has a qubit for each of them.
C11_MinimumQubitsCoverCircuit ==
    script.which = "IBMQ" /\ script.backend # "" =>
        /\ script.minimum_qubits >= script.circuit.num_qubits
        /\ script.backend_qubits >= script.circuit.num_qubits

\* what the code asks for: one qubit less than the circuit has
C11_MinimumQubitsOneShort ==
    script.which = "IBMQ" /\ script.executed = 1 =>
        script.minimum_qubits = script.circuit.num_qubits - 1

\* the simulated variant's script, with its own constants and a library
\* that yields another ciphertext, printed the error and ran to its end
C9_Witness ==
    /\ script.pc = "done" /\ script.which = "Aer"
    /\ script.key = ScriptKey /\ script.plaintext = ScriptPlaintext
    /\ script.ciphertext # ScriptExpected
    /\ script.executed = 1
    /\ Len(script.out) = 2

====
